---- MODULE Spec2Model ----
(***************************************************************************)
(* A model of polar's network orchestration engine:                        *)
(*   - DockerService (the lifecycle controller: getVersions, start, stop,  *)
(*     startNode, stopNode, removeNode, and the execute error wrapper);    *)
(*   - bitcoindModel (the backend state sync store: getInfo, mine,         *)
(*     sendFunds, removeNode, clearNodes).                                 *)
(* Every handler is an async function: an action of the model is the code  *)
(* that runs between two awaits.                                           *)
(***************************************************************************)
EXTENDS Integers, Sequences, FiniteSets, TLC

VARIABLES
    dcall,      \* DockerService: the call in progress (or the last one)
    dpc,        \* index, in the call's sequence of awaited calls, of the one awaited now
    trace,      \* the external calls this DockerService call issued, with their outcomes
    versions,   \* getVersions' local `versions`
    dresult,    \* the promise the DockerService call returned
    nodes,      \* bitcoindModel: state.nodes, the cache of chain and wallet info
    networks,   \* the store's networks (getStoreState().network), by network id
    height,     \* the chain height of each network's bitcoin nodes
    bcall,      \* bitcoindModel: the thunk in progress (or the last one)
    calls,      \* the bitcoindService calls and delays of this thunk, with outcomes
    fetch,      \* for each bitcoin node, where the getInfo dispatched for it is
    joined,     \* the nodes whose getInfo promises the thunk awaits
    txid,       \* sendFunds' local `txid`
    bresult,    \* the promise the thunk returned
    removed,    \* the nodes removed from the cache with no getInfo started since
    listing,    \* getImages: where the call is, and what docker.listImages() gave
    images,     \* getImages: the promise it returned
    file,       \* <networksPath>/networks.json on disk
    legacy,     \* <legacyDataPath>/networks on disk
    nodeEnv,    \* process.env.NODE_ENV
    pcall,      \* saveNetworks / loadNetworks: the call and where it is
    plog,       \* what the call has done to the file system so far
    presult,    \* the promise saveNetworks / loadNetworks returned
    saved,      \* the document of the last saveNetworks that resolved
    compose,    \* saveComposeFile: the call, where it is, and the ComposeFile built
    ymlFile,    \* <network.path>/docker-compose.yml on disk
    cresult,    \* the promise saveComposeFile returned
    earlier     \* the first saveComposeFile call that is over: its network and document

dockerVars == <<dcall, dpc, trace, versions, dresult>>
bitcoindVars == <<nodes, networks, height, bcall, calls, fetch, joined, txid, bresult,
                  removed>>
imageVars == <<listing, images>>
persistVars == <<file, legacy, nodeEnv, pcall, plog, presult, saved>>
composeVars == <<compose, ymlFile, cresult, earlier>>
vars == <<dcall, dpc, trace, versions, dresult,
          nodes, networks, height, bcall, calls, fetch, joined, txid, bresult, removed,
          listing, images,
          file, legacy, nodeEnv, pcall, plog, presult, saved,
          compose, ymlFile, cresult, earlier>>

(***************************************************************************)
(* Bounds                                                                  *)
(***************************************************************************)
MaxBitcoin == 2      \* bitcoin nodes of a network
MaxLightning == 2    \* lightning nodes of a network
MaxTextLen == 2      \* length of a text a command prints
MaxHeight == 6       \* chain height up to which blocks are mined
MaxNameLen == 2      \* length of a node name made of digits and dashes
MaxImages == 2       \* images the container engine lists
MaxTags == 2         \* tags of one image
MaxNetworks == 2     \* networks in a networks file
MaxVersion == 3      \* newest version a networks file on disk can carry

(***************************************************************************)
(* Texts. A text is a sequence of tokens: a visible character, a white     *)
(* space, or one whole ANSI colour escape sequence.                        *)
(***************************************************************************)
AnsiCodes == {"ESC[31m"}
WhiteSpace == {" "}
Alphabet == {"1"} \cup WhiteSpace \cup AnsiCodes

SeqsUpTo(S, n) == UNION {[1..k -> S] : k \in 0..n}

Texts == SeqsUpTo(Alphabet, MaxTextLen)

\* strip-ansi: removes every ANSI escape sequence, keeps the rest in order
stripAnsi(t) == SelectSeq(t, LAMBDA c : c \notin AnsiCodes)

RECURSIVE trimStart(_)
trimStart(t) ==
    IF t # <<>> /\ Head(t) \in WhiteSpace THEN trimStart(Tail(t)) ELSE t

RECURSIVE trimEnd(_)
trimEnd(t) ==
    IF t # <<>> /\ t[Len(t)] \in WhiteSpace
    THEN trimEnd(SubSeq(t, 1, Len(t) - 1))
    ELSE t

\* String.prototype.trim
trim(t) == trimEnd(trimStart(t))

\* JSON.stringify of a docker-compose failure value {exitCode, err, out}
JSONstringify(e) ==
    <<"{\"exitCode\":", IF e.exitCode = 0 THEN "0" ELSE "1", ",\"err\":\"">>
        \o e.err \o <<"\",\"out\":\"">> \o e.out \o <<"\"}">>

(***************************************************************************)
(* Networks and nodes                                                      *)
(***************************************************************************)
BitcoinNames == << <<"b", "1">>, <<"b", "2">>, <<"b", "3">>, <<"b", "4">> >>
LightningNames == << <<"l", "1">>, <<"l", "2">>, <<"l", "3">>, <<"l", "4">> >>
LightningImpls == {"LND", "c-lightning", "eclair"}

NoNode == [name |-> <<>>, implementation |-> ""]
NoNetwork == [path |-> "", bitcoin |-> <<>>, lightning |-> <<>>]

\* the networks a DockerService call is given: 1..MaxBitcoin bitcoin nodes and
\* 0..MaxLightning lightning nodes of any implementation, names unique
Networks ==
    {[path |-> "net",
      bitcoin |-> [i \in 1..k |-> [name |-> BitcoinNames[i],
                                   implementation |-> "bitcoind"]],
      lightning |-> [i \in 1..Len(impls) |-> [name |-> LightningNames[i],
                                              implementation |-> impls[i]]]] :
        k \in 1..MaxBitcoin, impls \in SeqsUpTo(LightningImpls, MaxLightning)}

NodesOf(network) == network.bitcoin \o network.lightning

Range(s) == {s[i] : i \in 1..Len(s)}

(***************************************************************************)
(* The awaited calls of DockerService                                      *)
(***************************************************************************)
ComposeCmds == {"version", "upAll", "down", "upOne", "stopOne", "rm"}

\* fs-extra's ensureDir on nodePath(network, implementation, name)[/sub]
EnsureDir(node, sub) ==
    [call |-> "ensureDir", implementation |-> node.implementation,
     name |-> node.name, sub |-> sub]

\* a docker-compose command run through execute
Compose(cmd, name) ==
    [call |-> cmd, implementation |-> "", name |-> name, sub |-> ""]

\* dockerode's docker.version()
DockerVersion ==
    [call |-> "dockerVersion", implementation |-> "", name |-> <<>>, sub |-> ""]

\* nodeDirs as it would be with the c-lightning sub-directories forgotten
nodeDirs_NoSubDirs(node) == <<EnsureDir(node, "")>>

\* the directories ensureDirs creates for one node
nodeDirs(node) ==
    <<EnsureDir(node, "")>> \o
    (IF node.implementation = "c-lightning"
     THEN <<EnsureDir(node, "dataDir"), EnsureDir(node, "apiDir")>>
     ELSE <<>>)

RECURSIVE ensureDirs(_)
ensureDirs(ns) ==
    IF ns = <<>> THEN <<>> ELSE nodeDirs(Head(ns)) \o ensureDirs(Tail(ns))

start(network) == ensureDirs(NodesOf(network)) \o <<Compose("upAll", <<>>)>>

\* stop as it would be if it provisioned the directories as start does
stop_EnsuresDirs(network) ==
    ensureDirs(NodesOf(network)) \o <<Compose("down", <<>>)>>

stop(network) == <<Compose("down", <<>>)>>

stopNode(network, node) == <<Compose("stopOne", node.name)>>

\* startNode as it would be without the stop before the start
startNode_SkipsStop(network, node) ==
    ensureDirs(<<node>>) \o <<Compose("upOne", node.name)>>

startNode(network, node) ==
    ensureDirs(<<node>>) \o stopNode(network, node) \o <<Compose("upOne", node.name)>>

\* removeNode as it would be with the container removed before it is stopped
removeNode_RemovesFirst(network, node) ==
    <<Compose("rm", node.name), Compose("stopOne", node.name)>>

removeNode(network, node) ==
    <<Compose("stopOne", node.name), Compose("rm", node.name)>>

getVersions == <<DockerVersion, Compose("version", <<>>)>>

\* the awaited calls of a DockerService call, in the order the code reaches them
Plan(c) ==
    CASE c.op = "start" -> start(c.network)
      [] c.op = "stop" -> stop(c.network)
      [] c.op = "startNode" -> startNode(c.network, c.node)
      [] c.op = "stopNode" -> stopNode(c.network, c.node)
      [] c.op = "removeNode" -> removeNode(c.network, c.node)
      [] c.op = "getVersions" -> getVersions
      [] OTHER -> <<>>

\* Swallows as it would be if the catch blocks always rethrew
Swallows_Never(c) == FALSE

\* Swallows as it would be if the catch blocks never rethrew
Swallows_Always(c) == c.op = "getVersions"

\* getVersions' catch blocks rethrow only when throwOnError is set
Swallows(c) == c.op = "getVersions" /\ ~c.throwOnError

(***************************************************************************)
(* What the external calls return or throw                                 *)
(***************************************************************************)
NoValue == [exitCode |-> 0, out |-> <<>>, err |-> <<>>]

\* a docker-compose result: only `version`'s output is used by the code, the
\* output of the other commands goes to the log
ComposeResults(cmd) ==
    IF cmd = "version"
    THEN {[exitCode |-> 0, out |-> t, err |-> <<>>] : t \in Texts}
    ELSE {NoValue}

\* the value a failed docker-compose command rejects with
ComposeFailures == {[exitCode |-> 1, out |-> <<>>, err |-> t] : t \in Texts}

DockerVersionResults == {<<"1">>, <<"1", "1">>}
DockerError == <<"E", "N", "O", "E", "N", "T">>
EnsureDirError == <<"E", "A", "C", "C", "E", "S">>

\* executeError as it would be with the standard-error text used as it came
executeError_Raw(e) == IF e.err # <<>> THEN e.err ELSE JSONstringify(e)

\* the message of the Error execute throws for the failure value e
executeError(e) ==
    LET err == stripAnsi(e.err)
    IN  IF err # <<>> THEN err ELSE JSONstringify([e EXCEPT !.err = err])

\* the result execute returns for the docker-compose result r
executeResult(r) == [r EXCEPT !.out = stripAnsi(r.out), !.err = stripAnsi(r.err)]

(***************************************************************************)
(* DockerService: calls                                                    *)
(***************************************************************************)
NoVersions == [docker |-> <<>>, compose |-> <<>>]
NoCall == [op |-> "none", network |-> NoNetwork, node |-> NoNode, throwOnError |-> FALSE]
Running(step) == [step |-> step, outcome |-> "running", value |-> NoValue]

Invoke(op, network, node, throwOnError) ==
    LET c == [op |-> op, network |-> network, node |-> node,
              throwOnError |-> throwOnError]
    IN  /\ dcall' = c
        /\ dpc' = 1
        /\ trace' = <<Running(Plan(c)[1])>>
        /\ versions' = NoVersions
        /\ dresult' = [status |-> "pending", error |-> <<>>]
        /\ UNCHANGED <<bitcoindVars, imageVars, persistVars, composeVars>>

DockerIdle == dresult.status = "none"

CallStart ==
    \E network \in Networks :
        /\ DockerIdle
        /\ Invoke("start", network, NoNode, FALSE)

CallStop ==
    \E network \in Networks :
        /\ DockerIdle
        /\ Invoke("stop", network, NoNode, FALSE)

CallStartNode ==
    \E network \in Networks : \E node \in Range(NodesOf(network)) :
        /\ DockerIdle
        /\ Invoke("startNode", network, node, FALSE)

CallStopNode ==
    \E network \in Networks : \E node \in Range(NodesOf(network)) :
        /\ DockerIdle
        /\ Invoke("stopNode", network, node, FALSE)

CallRemoveNode ==
    \E network \in Networks : \E node \in Range(NodesOf(network)) :
        /\ DockerIdle
        /\ Invoke("removeNode", network, node, FALSE)

CallGetVersions ==
    \E throwOnError \in BOOLEAN :
        /\ DockerIdle
        /\ Invoke("getVersions", NoNetwork, NoNode, throwOnError)

(***************************************************************************)
(* DockerService: the awaited call completes and the handler runs on to    *)
(* its next await, its return or its throw                                 *)
(***************************************************************************)
Awaiting == dresult.status = "pending"
Current == Plan(dcall)[dpc]

Completed(outcome, value) ==
    [trace EXCEPT ![dpc] = [step |-> Current, outcome |-> outcome, value |-> value]]

\* the awaited call returned (or its error was swallowed): go on
Advance(outcome, value) ==
    IF dpc < Len(Plan(dcall))
    THEN /\ dpc' = dpc + 1
         /\ trace' = Append(Completed(outcome, value), Running(Plan(dcall)[dpc + 1]))
         /\ dresult' = dresult
    ELSE /\ dpc' = dpc
         /\ trace' = Completed(outcome, value)
         /\ dresult' = [status |-> "resolved", error |-> <<>>]

\* Reject as it would be if the call that threw were tried a second time
Reject_RetriesOnce(value, message) ==
    IF \A i \in 1..Len(trace) : trace[i].outcome # "failed"
    THEN /\ dpc' = dpc
         /\ trace' = Append(Completed("failed", value), Running(Current))
         /\ dresult' = dresult
    ELSE /\ dpc' = dpc
         /\ trace' = Completed("failed", value)
         /\ dresult' = [status |-> "rejected", error |-> message]

\* the awaited call threw and the handler lets the error through
Reject(value, message) ==
    /\ dpc' = dpc
    /\ trace' = Completed("failed", value)
    /\ dresult' = [status |-> "rejected", error |-> message]

\* on an error: the catch block swallows it, or the call rejects
Throw(value, message) ==
    IF Swallows(dcall) THEN Advance("failed", value) ELSE Reject(value, message)

EnsureDirDone ==
    /\ Awaiting
    /\ Current.call = "ensureDir"
    /\ \/ Advance("ok", NoValue)
       \/ Throw([NoValue EXCEPT !.err = EnsureDirError], EnsureDirError)
    /\ UNCHANGED <<dcall, versions>>
    /\ UNCHANGED <<bitcoindVars, imageVars, persistVars, composeVars>>

DockerVersionDone ==
    /\ Awaiting
    /\ Current.call = "dockerVersion"
    /\ \/ \E v \in DockerVersionResults :
            /\ Advance("ok", [NoValue EXCEPT !.out = v])
            /\ versions' = [versions EXCEPT !.docker = v]
       \/ /\ Throw([NoValue EXCEPT !.err = DockerError], DockerError)
          /\ versions' = versions
    /\ UNCHANGED dcall
    /\ UNCHANGED <<bitcoindVars, imageVars, persistVars, composeVars>>

ExecuteDone ==
    /\ Awaiting
    /\ Current.call \in ComposeCmds
    /\ \/ \E r \in ComposeResults(Current.call) :
            /\ Advance("ok", r)
            /\ versions' = IF Current.call = "version"
                           THEN [versions EXCEPT !.compose = trim(executeResult(r).out)]
                           ELSE versions
       \/ \E e \in ComposeFailures :
            /\ Throw(e, executeError(e))
            /\ versions' = versions
    /\ UNCHANGED dcall
    /\ UNCHANGED <<bitcoindVars, imageVars, persistVars, composeVars>>

\* the caller's await of the DockerService call is over: the service is idle again
DockerReturn ==
    /\ dresult.status \in {"resolved", "rejected"}
    /\ dcall' = NoCall
    /\ dpc' = 0
    /\ trace' = <<>>
    /\ versions' = NoVersions
    /\ dresult' = [status |-> "none", error |-> <<>>]
    /\ UNCHANGED <<bitcoindVars, imageVars, persistVars, composeVars>>

(***************************************************************************)
(* bitcoindModel: the store's networks and the node-info cache             *)
(***************************************************************************)
Statuses == {"Starting", "Started", "Stopping", "Stopped", "Error"}
\* the statuses the store's nodes are given: to mine, a node is started or not
NodeStatuses == {"Started", "Stopped", "Error"}

Digits == <<"0", "1", "2", "3", "4", "5", "6", "7", "8", "9">>

\* the decimal text of an integer, as a template literal prints it
RECURSIVE NumberToString(_)
NumberToString(n) ==
    IF n < 0 THEN <<"-">> \o NumberToString(-n)
    ELSE IF n < 10 THEN <<Digits[n + 1]>>
    ELSE NumberToString(n \div 10) \o <<Digits[(n % 10) + 1]>>

\* getNetworkBackendId as it would be without the dash between id and name
getNetworkBackendId_NoSeparator(node) == NumberToString(node.networkId) \o node.name

getNetworkBackendId(node) == NumberToString(node.networkId) \o <<"-">> \o node.name

\* the store holds network 1 with 1..MaxBitcoin bitcoin nodes of any status and
\* network 2 with one started bitcoin node that has the name of network 1's first
StoreNetworks ==
    {[id \in {1, 2} |->
        IF id = 1
        THEN [id |-> 1,
              bitcoin |-> [i \in 1..Len(st) |-> [networkId |-> 1,
                                                  name |-> BitcoinNames[i],
                                                  status |-> st[i]]]]
        ELSE [id |-> 2,
              bitcoin |-> <<[networkId |-> 2, name |-> BitcoinNames[1],
                             status |-> "Started"]>>]] :
        st \in SeqsUpTo(NodeStatuses, MaxBitcoin) \ {<<>>}}

\* network ids and node names that put the key to the test: ids of one and of two
\* digits, names made of the digits and the dash the key is built with
KeyIds == {0, 1, 11}
KeyNames == SeqsUpTo({"-", "1"}, MaxNameLen) \ {<<>>}
KeyNodes == [networkId : KeyIds, name : KeyNames, status : {"Started"}]

\* the store's networks when its bitcoin nodes are the two nodes n and m
StoreOf(n, m) ==
    [id \in {n.networkId, m.networkId} |->
        [id |-> id, bitcoin |-> SelectSeq(<<n, m>>, LAMBDA x : x.networkId = id)]]

networkById(id) == networks[id]

StoreNodes == UNION {Range(networks[id].bitcoin) : id \in DOMAIN networks}

NoStoreNode == [networkId |-> 0, name |-> <<>>, status |-> "Stopped"]

\* the reducer actions, as functions of state.nodes
bitcoindRemoveNode(state, node) ==
    [k \in DOMAIN state \ {getNetworkBackendId(node)} |-> state[k]]

clearNodes(state) == [k \in {} |-> k]

\* setInfo as it would be if it replaced the cache by the node's entry
setInfo_ClearsOthers(state, node, chainInfo, walletInfo) ==
    [k \in {getNetworkBackendId(node)} |->
        [chainInfo |-> chainInfo, walletInfo |-> walletInfo]]

setInfo(state, node, chainInfo, walletInfo) ==
    LET id == getNetworkBackendId(node)
    IN  [k \in DOMAIN state \cup {id} |->
            IF k = id
            THEN [chainInfo |-> chainInfo, walletInfo |-> walletInfo]
            ELSE state[k]]

(***************************************************************************)
(* bitcoindModel: the thunks                                               *)
(***************************************************************************)
ConfirmBlocks == 6
SettleDelay == 500
MineBlocks == {-1, 0, ConfirmBlocks}
TxIds == {"tx1", "tx2"}

\* mineRejects as it would be with the check off by one
mineRejects_OffByOne(blocks) == blocks < -1

\* mine's argument check
mineRejects(blocks) == blocks < 0

\* sendFundsMines as it would be if autoMine were ignored
sendFundsMines_Always(c) == TRUE

\* sendFundsMines as it would be if sendFunds returned without mining
sendFundsMines_Never(c) == FALSE

\* whether sendFunds goes on to mine
sendFundsMines(c) == c.autoMine

\* mineRefreshes as it would be if only the mined-on node were refreshed
mineRefreshes_OnlyNode(node) == <<node>>

\* the nodes mine refreshes: the started bitcoin nodes of the node's network
mineRefreshes(node) ==
    SelectSeq(networkById(node.networkId).bitcoin, LAMBDA n : n.status = "Started")

NoChainInfo == [blocks |-> -1]
NotFetching == [stage |-> "none", chainInfo |-> NoChainInfo]
InFlight == {n \in StoreNodes : fetch[n].stage \in {"chain", "wallet"}}

Called(fn, node, arg) == [fn |-> fn, node |-> node, arg |-> arg, outcome |-> "running"]
Last == Len(calls)
Returned(outcome) == [calls EXCEPT ![Last].outcome = outcome]

BitcoindIdle == bresult.status = "none"
NoThunk == [op |-> "none", node |-> NoStoreNode, blocks |-> 0, autoMine |-> FALSE]

\* actions.getInfo dispatched for each of the nodes ns: each thunk runs to its
\* first await (getBlockchainInfo); the caller awaits them all
DispatchGetInfo(ns) ==
    /\ fetch' = [n \in StoreNodes |->
                    IF n \in Range(ns) THEN [stage |-> "chain", chainInfo |-> NoChainInfo]
                    ELSE fetch[n]]
    /\ joined' = Range(ns)
    /\ removed' = removed \ Range(ns)

\* the mine thunk, up to its first await or its throw
EnterMine(blocks, node, log) ==
    IF mineRejects(blocks)
    THEN /\ calls' = log
         /\ bresult' = [status |-> "rejected", value |-> "", error |-> "mineError"]
    ELSE /\ calls' = Append(log, Called("mine", node, blocks))
         /\ bresult' = [status |-> "pending", value |-> "", error |-> ""]

CallGetInfo ==
    \E node \in StoreNodes :
        /\ BitcoindIdle
        /\ bcall' = [op |-> "getInfo", node |-> node, blocks |-> 0, autoMine |-> FALSE]
        /\ calls' = <<>>
        /\ txid' = ""
        /\ bresult' = [status |-> "pending", value |-> "", error |-> ""]
        /\ fetch' = [n \in StoreNodes |->
                        IF n = node THEN [stage |-> "chain", chainInfo |-> NoChainInfo]
                        ELSE NotFetching]
        /\ joined' = {node}
        /\ removed' = removed \ {node}
        /\ UNCHANGED <<nodes, networks, height>>
        /\ UNCHANGED <<dockerVars, imageVars, persistVars, composeVars>>

CallMine ==
    \E node \in StoreNodes : \E blocks \in MineBlocks :
        /\ BitcoindIdle
        /\ bcall' = [op |-> "mine", node |-> node, blocks |-> blocks, autoMine |-> FALSE]
        /\ EnterMine(blocks, node, <<>>)
        /\ txid' = ""
        /\ fetch' = [n \in StoreNodes |-> NotFetching]
        /\ joined' = {}
        /\ UNCHANGED <<nodes, networks, height, removed>>
        /\ UNCHANGED <<dockerVars, imageVars, persistVars, composeVars>>

CallSendFunds ==
    \E node \in StoreNodes : \E autoMine \in BOOLEAN :
        /\ BitcoindIdle
        /\ bcall' = [op |-> "sendFunds", node |-> node, blocks |-> 0,
                     autoMine |-> autoMine]
        /\ calls' = <<Called("sendFunds", node, 0)>>
        /\ txid' = ""
        /\ bresult' = [status |-> "pending", value |-> "", error |-> ""]
        /\ fetch' = [n \in StoreNodes |-> NotFetching]
        /\ joined' = {}
        /\ UNCHANGED <<nodes, networks, height, removed>>
        /\ UNCHANGED <<dockerVars, imageVars, persistVars, composeVars>>

\* the value the thunk in progress returns once its last await is over
Resolved == [status |-> "resolved", value |-> txid, error |-> ""]

\* bitcoindService.sendFunds returned or threw
SendFundsDone ==
    /\ bresult.status = "pending"
    /\ calls # <<>>
    /\ calls[Last].fn = "sendFunds" /\ calls[Last].outcome = "running"
    /\ \/ \E id \in TxIds :
            /\ txid' = id
            /\ IF sendFundsMines(bcall)
               THEN EnterMine(ConfirmBlocks, bcall.node, Returned("ok"))
               ELSE /\ calls' = Returned("ok")
                    /\ bresult' = [status |-> "resolved", value |-> id, error |-> ""]
       \/ /\ calls' = Returned("failed")
          /\ bresult' = [status |-> "rejected", value |-> "", error |-> "sendFundsFailed"]
          /\ txid' = txid
    /\ UNCHANGED <<nodes, networks, height, bcall, fetch, joined, removed>>
    /\ UNCHANGED <<dockerVars, imageVars, persistVars, composeVars>>

\* bitcoindService.mine returned or threw
MineDone ==
    /\ bresult.status = "pending"
    /\ calls # <<>>
    /\ calls[Last].fn = "mine" /\ calls[Last].outcome = "running"
    /\ \/ /\ height[bcall.node.networkId] + calls[Last].arg \in 0..MaxHeight
          /\ height' = [height EXCEPT ![bcall.node.networkId] = @ + calls[Last].arg]
          /\ calls' = Append(Returned("ok"), Called("delay", bcall.node, SettleDelay))
          /\ bresult' = bresult
       \/ /\ calls' = Returned("failed")
          /\ bresult' = [status |-> "rejected", value |-> "", error |-> "mineFailed"]
          /\ height' = height
    /\ UNCHANGED <<nodes, networks, bcall, fetch, joined, txid, removed>>
    /\ UNCHANGED <<dockerVars, imageVars, persistVars, composeVars>>

\* the settle delay is over: getInfo is dispatched for every node to refresh
DelayDone ==
    /\ bresult.status = "pending"
    /\ calls # <<>>
    /\ calls[Last].fn = "delay" /\ calls[Last].outcome = "running"
    /\ calls' = Returned("ok")
    /\ DispatchGetInfo(mineRefreshes(bcall.node))
    /\ bresult' = IF mineRefreshes(bcall.node) = <<>> THEN Resolved ELSE bresult
    /\ UNCHANGED <<nodes, networks, height, bcall, txid>>
    /\ UNCHANGED <<dockerVars, imageVars, persistVars, composeVars>>

\* the thunk's promise after the getInfo of the node n failed: Promise.all
\* rejects with the first failure
AfterFailure(n, error) ==
    IF bresult.status = "pending" /\ n \in joined
    THEN [status |-> "rejected", value |-> "", error |-> error]
    ELSE bresult

\* getInfo: bitcoindService.getBlockchainInfo returned or threw
GetBlockchainInfoDone ==
    \E n \in StoreNodes :
        /\ fetch[n].stage = "chain"
        /\ \/ /\ fetch' = [fetch EXCEPT ![n] =
                     [stage |-> "wallet", chainInfo |-> [blocks |-> height[n.networkId]]]]
              /\ bresult' = bresult
           \/ /\ fetch' = [fetch EXCEPT ![n].stage = "failed"]
              /\ bresult' = AfterFailure(n, "getBlockchainInfoFailed")
        /\ UNCHANGED <<nodes, networks, height, bcall, calls, joined, txid, removed>>
        /\ UNCHANGED <<dockerVars, imageVars, persistVars, composeVars>>

\* getInfo: bitcoindService.getWalletInfo returned (setInfo is dispatched) or threw
GetWalletInfoDone ==
    \E n \in StoreNodes :
        /\ fetch[n].stage = "wallet"
        /\ \/ /\ fetch' = [fetch EXCEPT ![n] = [stage |-> "stored", chainInfo |-> NoChainInfo]]
              /\ nodes' = setInfo(nodes, n, fetch[n].chainInfo,
                                  [balance |-> height[n.networkId]])
              /\ bresult' =
                    IF /\ bresult.status = "pending"
                       /\ n \in joined
                       /\ \A m \in joined \ {n} : fetch[m].stage = "stored"
                    THEN Resolved
                    ELSE bresult
           \/ /\ fetch' = [fetch EXCEPT ![n] = [stage |-> "failed", chainInfo |-> NoChainInfo]]
              /\ nodes' = nodes
              /\ bresult' = AfterFailure(n, "getWalletInfoFailed")
        /\ UNCHANGED <<networks, height, bcall, calls, joined, txid, removed>>
        /\ UNCHANGED <<dockerVars, imageVars, persistVars, composeVars>>

\* the caller's await of the thunk is over and no getInfo is left in flight
BitcoindReturn ==
    /\ bresult.status \in {"resolved", "rejected"}
    /\ InFlight = {}
    /\ bcall' = NoThunk
    /\ calls' = <<>>
    /\ fetch' = [n \in StoreNodes |-> NotFetching]
    /\ joined' = {}
    /\ txid' = ""
    /\ bresult' = [status |-> "none", value |-> "", error |-> ""]
    /\ UNCHANGED <<nodes, networks, height, removed>>
    /\ UNCHANGED <<dockerVars, imageVars, persistVars, composeVars>>

\* the removeNode action is dispatched for a bitcoin node
RemoveNode ==
    \E n \in StoreNodes :
        /\ nodes' = bitcoindRemoveNode(nodes, n)
        /\ removed' = removed \cup {n}
        /\ UNCHANGED <<networks, height, bcall, calls, fetch, joined, txid, bresult>>
        /\ UNCHANGED <<dockerVars, imageVars, persistVars, composeVars>>

\* the clearNodes action is dispatched
ClearNodes ==
    /\ nodes' = clearNodes(nodes)
    /\ removed' = StoreNodes
    /\ UNCHANGED <<networks, height, bcall, calls, fetch, joined, txid, bresult>>
    /\ UNCHANGED <<dockerVars, imageVars, persistVars, composeVars>>

(***************************************************************************)
(* DockerService.getImages                                                 *)
(***************************************************************************)
Untagged == "<none>:<none>"
Tags == {"polarlightning/lnd:0.9", "polarlightning/bitcoind:0.19", Untagged}

\* an image as docker.listImages() reports it: RepoTags is a list of tags, or
\* is missing (hasRepoTags = FALSE)
ImageInfos ==
    {[hasRepoTags |-> FALSE, RepoTags |-> <<>>]} \cup
    {[hasRepoTags |-> TRUE, RepoTags |-> t] : t \in SeqsUpTo(Tags, MaxTags)}

ImageLists == SeqsUpTo(ImageInfos, MaxImages)
ListImagesError == <<"E", "C", "O", "N", "N">>

\* i.RepoTags || []
repoTags(i) == IF i.hasRepoTags THEN i.RepoTags ELSE <<>>

\* ([] as string[]).concat(...allImages.map(i => i.RepoTags || []))
RECURSIVE concatTags(_)
concatTags(allImages) ==
    IF allImages = <<>> THEN <<>>
    ELSE repoTags(Head(allImages)) \o concatTags(Tail(allImages))

\* Array.prototype.indexOf: the first index of x in s, 0 when there is none
RECURSIVE indexFrom(_, _, _)
indexFrom(s, x, i) ==
    IF i > Len(s) THEN 0 ELSE IF s[i] = x THEN i ELSE indexFrom(s, x, i + 1)

indexOf(s, x) == indexFrom(s, x, 1)

\* imageNames as it would be with the untagged images kept
imageNames_KeepsUntagged(allImages) == concatTags(allImages)

\* imageNames: every tag of every image, the untagged sentinel ignored
imageNames(allImages) == SelectSeq(concatTags(allImages), LAMBDA n : n # Untagged)

\* imageNames.filter((image, index) => imageNames.indexOf(image) === index)
RECURSIVE firstOccurrences(_, _)
firstOccurrences(names, index) ==
    IF index > Len(names) THEN <<>>
    ELSE (IF indexOf(names, names[index]) = index THEN <<names[index]>> ELSE <<>>)
         \o firstOccurrences(names, index + 1)

uniqueNames(names) == firstOccurrences(names, 1)

\* getImagesFailed as it would be if the catch block rethrew
getImagesFailed_Rethrows(error) ==
    [status |-> "rejected", value |-> <<>>, error |-> error]

\* getImages' catch block: return []
getImagesFailed(error) == [status |-> "resolved", value |-> <<>>, error |-> <<>>]

NotListing == [pc |-> "idle", outcome |-> "none", allImages |-> <<>>]
NoImages == [status |-> "none", value |-> <<>>, error |-> <<>>]

\* getImages is called and awaits docker.listImages()
CallGetImages ==
    /\ listing.pc = "idle"
    /\ listing' = [pc |-> "listImages", outcome |-> "running", allImages |-> <<>>]
    /\ images' = [status |-> "pending", value |-> <<>>, error |-> <<>>]
    /\ UNCHANGED <<dockerVars, bitcoindVars, persistVars, composeVars>>

\* docker.listImages() returned or threw
ListImagesDone ==
    /\ listing.pc = "listImages"
    /\ \/ \E allImages \in ImageLists :
            /\ listing' = [pc |-> "done", outcome |-> "ok", allImages |-> allImages]
            /\ images' = [status |-> "resolved",
                          value |-> uniqueNames(imageNames(allImages)),
                          error |-> <<>>]
       \/ /\ listing' = [pc |-> "done", outcome |-> "failed", allImages |-> <<>>]
          /\ images' = getImagesFailed(ListImagesError)
    /\ UNCHANGED <<dockerVars, bitcoindVars, persistVars, composeVars>>

\* the caller's await of getImages is over
ImagesReturn ==
    /\ listing.pc = "done"
    /\ listing' = NotListing
    /\ images' = NoImages
    /\ UNCHANGED <<dockerVars, bitcoindVars, persistVars, composeVars>>

(***************************************************************************)
(* The networks file                                                       *)
(***************************************************************************)
\* versions count releases: 1 is v0.1.0, APP_VERSION is the running release
APP_VERSION == 2

Versions == 1..MaxVersion

\* a NetworksFile: version, networks and charts (keyed by network id).  What
\* the migrations change about a network is its schema, the release whose
\* shape the network's record has.
NetworksFilesOf(version) ==
    UNION {{[version |-> version,
             networks |-> [i \in 1..k |-> [id |-> i, schema |-> version]],
             charts |-> c] : c \in {{}, 1..k}} : k \in 0..MaxNetworks}

NetworksFiles == UNION {NetworksFilesOf(v) : v \in Versions}

\* { version: APP_VERSION, networks: [], charts: {} }
EmptyNetworksFile == [version |-> APP_VERSION, networks |-> <<>>, charts |-> {}]

NoNetworksFile == [version |-> 0, networks |-> <<>>, charts |-> {}]

RECURSIVE stringifyNetworks(_)
stringifyNetworks(ns) ==
    IF ns = <<>> THEN <<>>
    ELSE <<"{\"id\":">> \o NumberToString(Head(ns).id)
         \o <<",\"schema\":">> \o NumberToString(Head(ns).schema) \o <<"}">>
         \o stringifyNetworks(Tail(ns))

\* the keys of an object that are integers are written in ascending order
RECURSIVE stringifyCharts(_, _)
stringifyCharts(charts, from) ==
    IF \A id \in charts : id < from THEN <<>>
    ELSE (IF from \in charts THEN NumberToString(from) \o <<":{}">> ELSE <<>>)
         \o stringifyCharts(charts, from + 1)

\* JSON.stringify as it would be if it left the charts out
stringifyNetworksFile_NoCharts(data) ==
    <<"{", "\"version\":">> \o NumberToString(data.version)
        \o <<",\"networks\":[">> \o stringifyNetworks(data.networks)
        \o <<"],\"charts\":{">> \o <<"}}">>

\* JSON.stringify(data, null, 2)
stringifyNetworksFile(data) ==
    <<"{", "\"version\":">> \o NumberToString(data.version)
        \o <<",\"networks\":[">> \o stringifyNetworks(data.networks)
        \o <<"],\"charts\":{">> \o stringifyCharts(data.charts, 1) \o <<"}}">>

IsDigit(c) == \E i \in 1..Len(Digits) : Digits[i] = c

digitValue(c) == (CHOOSE i \in 1..Len(Digits) : Digits[i] = c) - 1

\* the parsers return the value read and the position after it
RECURSIVE parseNumber(_, _, _)
parseNumber(t, i, acc) ==
    IF i <= Len(t) /\ IsDigit(t[i])
    THEN parseNumber(t, i + 1, acc * 10 + digitValue(t[i]))
    ELSE [value |-> acc, next |-> i]

RECURSIVE parseNetworks(_, _)
parseNetworks(t, i) ==
    IF i <= Len(t) /\ t[i] = "{\"id\":"
    THEN LET id == parseNumber(t, i + 1, 0)
             schema == parseNumber(t, id.next + 1, 0)
             rest == parseNetworks(t, schema.next + 1)
         IN  [value |-> <<[id |-> id.value, schema |-> schema.value]>> \o rest.value,
              next |-> rest.next]
    ELSE [value |-> <<>>, next |-> i]

RECURSIVE parseCharts(_, _)
parseCharts(t, i) ==
    IF i <= Len(t) /\ IsDigit(t[i])
    THEN LET key == parseNumber(t, i, 0)
             rest == parseCharts(t, key.next + 1)
         IN  [value |-> {key.value} \cup rest.value, next |-> rest.next]
    ELSE [value |-> {}, next |-> i]

\* JSON.parse(json)
JSONparse(t) ==
    LET version == parseNumber(t, 3, 0)
        nets == parseNetworks(t, version.next + 1)
        charts == parseCharts(t, nets.next + 1)
    IN  [version |-> version.value, networks |-> nets.value, charts |-> charts.value]

\* one migration step: from the shape of release v to the shape of release v + 1
migrationStep(data) ==
    [version |-> data.version + 1,
     networks |-> [i \in 1..Len(data.networks) |->
                      [data.networks[i] EXCEPT !.schema = data.version + 1]],
     charts |-> data.charts]

\* migrateNetworksFile throws on a version it does not recognise
migrationFails(data) == data.version \notin 1..APP_VERSION

\* migrateNetworksFile: the steps from the document's version up to APP_VERSION
RECURSIVE migrateNetworksFile(_)
migrateNetworksFile(data) ==
    IF data.version >= APP_VERSION THEN data
    ELSE migrateNetworksFile(migrationStep(data))

\* needsMigration as it would be if NODE_ENV were not looked at
needsMigration_VersionOnly(data, env) == data.version # APP_VERSION

\* needsMigration as it would be if no document were ever migrated
needsMigration_Never(data, env) == FALSE

\* data.version !== APP_VERSION || process.env.NODE_ENV !== 'production'
needsMigration(data, env) == data.version # APP_VERSION \/ env # "production"

\* shouldCopy as it would be if the copy were attempted on every load
shouldCopy_Always(pathExists, legacyNetworksExist) == TRUE

\* shouldCopy as it would be if an existing networks file were not looked at
shouldCopy_IgnoresPath(pathExists, legacyNetworksExist) == legacyNetworksExist

\* !(await exists(path)) && legacyNetworksExist
shouldCopy(pathExists, legacyNetworksExist) == ~pathExists /\ legacyNetworksExist

\* copyLegacyData catches the failure of copy and only logs it
copyLegacyDataCatches == TRUE

\* saveNetworks as it would be if it emptied the file before writing it
saveNetworks_TruncatesFirst(data) == << <<>>, stringifyNetworksFile(data) >>

\* saveNetworks: the texts it writes to the networks file, in order
saveNetworks(data) == <<stringifyNetworksFile(data)>>

\* utils/files write, when it fails: the file is left as it was
writeFailed(before, json) == before

Missing == [exists |-> FALSE, json |-> <<>>]
OnDisk(json) == [exists |-> TRUE, json |-> json]

\* the legacy networks directory: missing, or a directory with or without a
\* networks.json of an earlier release
LegacyDirs ==
    {[exists |-> FALSE, hasFile |-> FALSE, json |-> <<>>],
     [exists |-> TRUE, hasFile |-> FALSE, json |-> <<>>]} \cup
    {[exists |-> TRUE, hasFile |-> TRUE, json |-> stringifyNetworksFile(d)] :
        d \in UNION {NetworksFilesOf(v) : v \in 1..(APP_VERSION - 1)}}

\* fs-extra copy(legacyPath, networksPath) that succeeded
copied(f, dir) == IF dir.hasFile THEN OnDisk(dir.json) ELSE f

\* fs-extra copy that failed: it stopped before or after networks.json
copyFailed(f, dir) == {f, copied(f, dir)}

FsError == <<"E", "A", "C", "C", "E", "S">>
MigrationError == <<"v", "e", "r", "s", "i", "o", "n">>

NoPersistCall ==
    [op |-> "none", pc |-> "idle", data |-> NoNetworksFile, writes |-> <<>>,
     before |-> Missing, legacyNetworksExist |-> FALSE]
NoPersistResult == [status |-> "none", value |-> NoNetworksFile, error |-> <<>>]
PendingResult == [status |-> "pending", value |-> NoNetworksFile, error |-> <<>>]
ResolvedWith(data) == [status |-> "resolved", value |-> data, error |-> <<>>]
RejectedWith(error) == [status |-> "rejected", value |-> NoNetworksFile, error |-> error]
NothingSaved == [valid |-> FALSE, data |-> NoNetworksFile]

Did(op, ok, json) == [op |-> op, ok |-> ok, json |-> json]

\* saveNetworks(data) is called: it stringifies and awaits write
CallSaveNetworks ==
    /\ pcall.op = "none"
    /\ \E data \in NetworksFiles :
          pcall' = [op |-> "saveNetworks", pc |-> "write", data |-> data,
                    writes |-> saveNetworks(data), before |-> file,
                    legacyNetworksExist |-> FALSE]
    /\ plog' = <<>>
    /\ presult' = PendingResult
    /\ saved' = NothingSaved
    /\ UNCHANGED <<file, legacy, nodeEnv, dockerVars, bitcoindVars, imageVars, composeVars>>

\* loadNetworks() is called: it awaits exists(<legacyDataPath>/networks)
CallLoadNetworks ==
    /\ pcall.op = "none"
    /\ pcall' = [op |-> "loadNetworks", pc |-> "existsLegacy", data |-> NoNetworksFile,
                 writes |-> <<>>, before |-> file, legacyNetworksExist |-> FALSE]
    /\ plog' = <<>>
    /\ presult' = PendingResult
    /\ UNCHANGED <<file, legacy, nodeEnv, saved, dockerVars, bitcoindVars, imageVars, composeVars>>

\* exists(<legacyDataPath>/networks) returned; loadNetworks awaits exists(path)
ExistsLegacyDone ==
    /\ pcall.pc = "existsLegacy"
    /\ pcall' = [pcall EXCEPT !.pc = "existsPath", !.legacyNetworksExist = legacy.exists]
    /\ UNCHANGED <<file, legacy, nodeEnv, plog, presult, saved,
                   dockerVars, bitcoindVars, imageVars, composeVars>>

\* exists(path) returned: copyLegacyData is called, or the copy is skipped
ExistsPathDone ==
    /\ pcall.pc = "existsPath"
    /\ pcall' = [pcall EXCEPT !.pc = IF shouldCopy(file.exists, pcall.legacyNetworksExist)
                                     THEN "copy" ELSE "existsPathAgain"]
    /\ UNCHANGED <<file, legacy, nodeEnv, plog, presult, saved,
                   dockerVars, bitcoindVars, imageVars, composeVars>>

\* copy(legacyPath, networksPath) returned or threw inside copyLegacyData
CopyDone ==
    /\ pcall.pc = "copy"
    /\ \/ /\ file' = copied(file, legacy)
          /\ plog' = Append(plog, Did("copy", TRUE, file'.json))
          /\ pcall' = [pcall EXCEPT !.pc = "existsPathAgain"]
          /\ UNCHANGED presult
       \/ /\ file' \in copyFailed(file, legacy)
          /\ plog' = Append(plog, Did("copy", FALSE, file'.json))
          /\ IF copyLegacyDataCatches
             THEN /\ pcall' = [pcall EXCEPT !.pc = "existsPathAgain"]
                  /\ UNCHANGED presult
             ELSE /\ pcall' = [pcall EXCEPT !.pc = "done"]
                  /\ presult' = RejectedWith(FsError)
    /\ UNCHANGED <<legacy, nodeEnv, saved, dockerVars, bitcoindVars, imageVars, composeVars>>

\* the second exists(path) returned: read is awaited, or the empty document
\* is returned
ExistsPathAgainDone ==
    /\ pcall.pc = "existsPathAgain"
    /\ IF file.exists
       THEN /\ pcall' = [pcall EXCEPT !.pc = "read"]
            /\ UNCHANGED presult
       ELSE /\ pcall' = [pcall EXCEPT !.pc = "done"]
            /\ presult' = ResolvedWith(EmptyNetworksFile)
    /\ UNCHANGED <<file, legacy, nodeEnv, plog, saved, dockerVars, bitcoindVars, imageVars, composeVars>>

\* read(path) returned or threw; the text is parsed and, when needed, migrated
ReadDone ==
    /\ pcall.pc = "read"
    /\ \/ LET data == JSONparse(file.json) IN
          IF needsMigration(data, nodeEnv)
          THEN IF migrationFails(data)
               THEN /\ plog' = Append(plog, Did("read", TRUE, file.json))
                    /\ pcall' = [pcall EXCEPT !.pc = "done", !.data = data]
                    /\ presult' = RejectedWith(MigrationError)
               ELSE /\ plog' = plog \o <<Did("read", TRUE, file.json),
                                         Did("migrate", TRUE, file.json)>>
                    /\ pcall' = [pcall EXCEPT !.pc = "write",
                                              !.data = migrateNetworksFile(data),
                                              !.writes = saveNetworks(migrateNetworksFile(data))]
                    /\ UNCHANGED presult
          ELSE /\ plog' = Append(plog, Did("read", TRUE, file.json))
               /\ pcall' = [pcall EXCEPT !.pc = "done", !.data = data]
               /\ presult' = ResolvedWith(data)
       \/ /\ plog' = Append(plog, Did("read", FALSE, <<>>))
          /\ pcall' = [pcall EXCEPT !.pc = "done"]
          /\ presult' = RejectedWith(FsError)
    /\ UNCHANGED <<file, legacy, nodeEnv, saved, dockerVars, bitcoindVars, imageVars, composeVars>>

\* write(path, json) returned or threw, in saveNetworks
WriteDone ==
    /\ pcall.pc = "write"
    /\ LET json == Head(pcall.writes) IN
       \/ /\ file' = OnDisk(json)
          /\ plog' = Append(plog, Did("write", TRUE, json))
          /\ IF Len(pcall.writes) > 1
             THEN /\ pcall' = [pcall EXCEPT !.writes = Tail(pcall.writes)]
                  /\ UNCHANGED <<presult, saved>>
             ELSE /\ pcall' = [pcall EXCEPT !.pc = "done", !.writes = <<>>]
                  /\ presult' = IF pcall.op = "loadNetworks" THEN ResolvedWith(pcall.data)
                                ELSE ResolvedWith(NoNetworksFile)
                  /\ saved' = IF pcall.op = "saveNetworks"
                              THEN [valid |-> TRUE, data |-> pcall.data] ELSE saved
       \/ /\ file' = writeFailed(file, json)
          /\ plog' = Append(plog, Did("write", FALSE, json))
          /\ pcall' = [pcall EXCEPT !.pc = "done", !.writes = <<>>]
          /\ presult' = RejectedWith(FsError)
          /\ UNCHANGED saved
    /\ UNCHANGED <<legacy, nodeEnv, dockerVars, bitcoindVars, imageVars, composeVars>>

\* the caller's await of saveNetworks / loadNetworks is over
PersistReturn ==
    /\ pcall.pc = "done"
    /\ pcall' = NoPersistCall
    /\ plog' = <<>>
    /\ presult' = NoPersistResult
    /\ UNCHANGED <<file, legacy, nodeEnv, saved, dockerVars, bitcoindVars, imageVars, composeVars>>

(***************************************************************************)
(* DockerService.saveComposeFile                                           *)
(***************************************************************************)
\* an implementation tag saveComposeFile has no branch for
UnknownImpl == "litd"

\* the networks saveComposeFile is given: every lightning node names the
\* backend it was created with, which is one of the network's bitcoin nodes or
\* a bitcoin node the network no longer has; its implementation is one of the
\* three the service knows, or another
ComposeNetworks ==
    UNION {{[path |-> "net",
             bitcoin |-> [i \in 1..k |-> [name |-> BitcoinNames[i],
                                          implementation |-> "bitcoind"]],
             lightning |-> [i \in 1..Len(ls) |->
                              [name |-> LightningNames[i],
                               implementation |-> ls[i].implementation,
                               backendName |-> BitcoinNames[ls[i].backend]]]] :
                ls \in SeqsUpTo([implementation : LightningImpls \cup {UnknownImpl},
                                 backend : 1..(k + 1)],
                                MaxLightning)} :
           k \in 1..MaxBitcoin}

\* ComposeFile.addBitcoind: one service, named by the node
addBitcoind(content, node) ==
    Append(content, [name |-> node.name, implementation |-> node.implementation,
                     backend |-> <<>>])

\* ComposeFile.addLnd / addClightning / addEclair: one service, named by the
\* node, whose command refers to the backend by the backend's name
addLightning(content, node, backend) ==
    Append(content, [name |-> node.name, implementation |-> node.implementation,
                     backend |-> backend.name])

\* backendOf as it would be if the declared backend were not looked up
backendOf_AlwaysFirst(bitcoin, node) == bitcoin[1]

\* bitcoin.find(n => n.name === node.backendName) || bitcoin[0]
backendOf(bitcoin, node) ==
    LET found == {i \in 1..Len(bitcoin) : bitcoin[i].name = node.backendName}
    IN  IF found # {}
        THEN bitcoin[CHOOSE i \in found : \A j \in found : i <= j]
        ELSE bitcoin[1]

RECURSIVE forEachBitcoin(_, _)
forEachBitcoin(content, bitcoin) ==
    IF bitcoin = <<>> THEN content
    ELSE forEachBitcoin(addBitcoind(content, Head(bitcoin)), Tail(bitcoin))

\* lightning.forEach: a node of none of the three implementations adds nothing
RECURSIVE forEachLightning(_, _, _)
forEachLightning(content, bitcoin, lightning) ==
    IF lightning = <<>> THEN content
    ELSE forEachLightning(
            IF Head(lightning).implementation \in {"LND", "c-lightning", "eclair"}
            THEN addLightning(content, Head(lightning), backendOf(bitcoin, Head(lightning)))
            ELSE content,
            bitcoin, Tail(lightning))

\* newComposeFile as it would be if the ComposeFile of the call before were
\* used again
newComposeFile_Reused == compose.content

\* new ComposeFile(): no service yet
newComposeFile == <<>>

\* file.content once both forEach loops are over
composeContent(network) ==
    forEachLightning(forEachBitcoin(newComposeFile, network.bitcoin), network.bitcoin,
                     network.lightning)

RECURSIVE dumpServices(_)
dumpServices(content) ==
    IF content = <<>> THEN <<>>
    ELSE <<"  ">> \o Head(content).name \o <<":", "image:", Head(content).implementation>>
         \o (IF Head(content).backend = <<>> THEN <<>>
             ELSE <<"backend:">> \o Head(content).backend)
         \o <<"\n">> \o dumpServices(Tail(content))

\* yaml.dump(file.content)
yamlDump(content) == <<"services:", "\n">> \o dumpServices(content)

NoCompose == [pc |-> "idle", network |-> NoNetwork, content |-> <<>>, before |-> Missing]
NoComposeResult == [status |-> "none", error |-> <<>>]
NoEarlier == [status |-> "none", network |-> NoNetwork, yml |-> <<>>]

\* saveComposeFile(network) is called: it builds the ComposeFile and awaits
\* write.  Once a call is over, the network of that call is the one saved again.
CallSaveComposeFile ==
    /\ compose.pc = "idle"
    /\ cresult.status = "none"
    /\ \E network \in (IF earlier.status = "none" THEN ComposeNetworks
                        ELSE {earlier.network}) :
          compose' = [pc |-> "write", network |-> network,
                      content |-> composeContent(network), before |-> ymlFile]
    /\ cresult' = [status |-> "pending", error |-> <<>>]
    /\ UNCHANGED <<ymlFile, earlier, dockerVars, bitcoindVars, imageVars, persistVars>>

\* write(path, yml) returned or threw
ComposeWriteDone ==
    /\ compose.pc = "write"
    /\ \/ /\ ymlFile' = OnDisk(yamlDump(compose.content))
          /\ cresult' = [status |-> "resolved", error |-> <<>>]
       \/ /\ ymlFile' = writeFailed(ymlFile, yamlDump(compose.content))
          /\ cresult' = [status |-> "rejected", error |-> FsError]
    /\ compose' = [compose EXCEPT !.pc = "done"]
    /\ UNCHANGED <<earlier, dockerVars, bitcoindVars, imageVars, persistVars>>

\* the caller's await of saveComposeFile is over
ComposeReturn ==
    /\ compose.pc = "done"
    /\ compose' = [compose EXCEPT !.pc = "idle"]
    /\ cresult' = NoComposeResult
    /\ earlier' = IF earlier.status = "none"
                  THEN [status |-> cresult.status, network |-> compose.network,
                        yml |-> IF cresult.status = "resolved" THEN ymlFile.json ELSE <<>>]
                  ELSE earlier
    /\ UNCHANGED <<ymlFile, dockerVars, bitcoindVars, imageVars, persistVars>>

(***************************************************************************)
(* Specifications                                                          *)
(***************************************************************************)
DockerInit ==
    /\ dcall = NoCall
    /\ dpc = 0
    /\ trace = <<>>
    /\ versions = NoVersions
    /\ dresult = [status |-> "none", error |-> <<>>]

ImagesInit ==
    /\ listing = NotListing
    /\ images = NoImages

\* no saveNetworks / loadNetworks call, on any disk the program can find
PersistInit ==
    /\ file \in {Missing} \cup {OnDisk(stringifyNetworksFile(d)) : d \in NetworksFiles}
    /\ legacy \in LegacyDirs
    /\ nodeEnv \in {"production", "development"}
    /\ pcall = NoPersistCall
    /\ plog = <<>>
    /\ presult = NoPersistResult
    /\ saved = NothingSaved

\* a first run in production: nothing on disk
FreshDisk ==
    /\ file = Missing
    /\ legacy = [exists |-> FALSE, hasFile |-> FALSE, json |-> <<>>]
    /\ nodeEnv = "production"
    /\ pcall = NoPersistCall
    /\ plog = <<>>
    /\ presult = NoPersistResult
    /\ saved = NothingSaved

\* no saveComposeFile call; the network's directory holds no compose file or
\* the one an earlier call wrote
ComposeInit ==
    /\ compose = NoCompose
    /\ ymlFile \in {Missing} \cup {OnDisk(yamlDump(composeContent(n))) :
                                    n \in {m \in ComposeNetworks : m.lightning = <<>>}}
    /\ cresult = NoComposeResult
    /\ earlier = NoEarlier

NoComposeFile ==
    /\ compose = NoCompose
    /\ ymlFile = Missing
    /\ cresult = NoComposeResult
    /\ earlier = NoEarlier

BitcoindInit ==
    /\ nodes = [k \in {} |-> k]
    /\ networks \in StoreNetworks
    /\ height = [id \in {1, 2} |-> 0]
    /\ bcall = NoThunk
    /\ calls = <<>>
    /\ fetch = [n \in StoreNodes |-> NotFetching]
    /\ joined = {}
    /\ txid = ""
    /\ bresult = [status |-> "none", value |-> "", error |-> ""]
    /\ removed = {}

\* DockerService, with the store left alone
Init ==
    /\ DockerInit
    /\ BitcoindInit
    /\ Len(networks[1].bitcoin) = 1
    /\ networks[1].bitcoin[1].status = "Stopped"
    /\ ImagesInit
    /\ FreshDisk
    /\ NoComposeFile

Next ==
    \/ CallStart
    \/ CallStop
    \/ CallStartNode
    \/ CallStopNode
    \/ CallRemoveNode
    \/ CallGetVersions
    \/ EnsureDirDone
    \/ DockerVersionDone
    \/ ExecuteDone
    \/ DockerReturn

Spec == Init /\ [][Next]_vars

\* bitcoindModel, with DockerService left alone
BitcoindNext ==
    \/ CallGetInfo
    \/ CallMine
    \/ CallSendFunds
    \/ SendFundsDone
    \/ MineDone
    \/ DelayDone
    \/ GetBlockchainInfoDone
    \/ GetWalletInfoDone
    \/ BitcoindReturn

BitcoindSpecInit == DockerInit /\ BitcoindInit /\ ImagesInit /\ FreshDisk /\ NoComposeFile

SpecBitcoind == BitcoindSpecInit /\ [][BitcoindNext]_vars

\* the node-info cache: getInfo thunks and mine's refresh, with the removeNode and
\* clearNodes actions dispatched at any moment
CacheNext ==
    \/ CallGetInfo
    \/ CallMine
    \/ MineDone
    \/ DelayDone
    \/ GetBlockchainInfoDone
    \/ GetWalletInfoDone
    \/ BitcoindReturn
    \/ RemoveNode
    \/ ClearNodes

CacheSpecInit == DockerInit /\ BitcoindInit /\ ImagesInit /\ FreshDisk /\ NoComposeFile

SpecCache == CacheSpecInit /\ [][CacheNext]_vars

\* the cache of a store whose two bitcoin nodes have ids and names that look alike
KeysInit ==
    /\ nodes = [k \in {} |-> k]
    /\ \E n \in KeyNodes : \E m \in KeyNodes \ {n} : networks = StoreOf(n, m)
    /\ height = [id \in DOMAIN networks |-> 0]
    /\ bcall = NoThunk
    /\ calls = <<>>
    /\ fetch = [n \in StoreNodes |-> NotFetching]
    /\ joined = {}
    /\ txid = ""
    /\ bresult = [status |-> "none", value |-> "", error |-> ""]
    /\ removed = {}

KeysNext ==
    \/ CallGetInfo
    \/ GetBlockchainInfoDone
    \/ GetWalletInfoDone
    \/ BitcoindReturn
    \/ RemoveNode

KeysSpecInit == DockerInit /\ KeysInit /\ ImagesInit /\ FreshDisk /\ NoComposeFile

SpecKeys == KeysSpecInit /\ [][KeysNext]_vars

\* the store's networks when the store is left alone
QuietStore ==
    /\ BitcoindInit
    /\ Len(networks[1].bitcoin) = 1
    /\ networks[1].bitcoin[1].status = "Stopped"

\* DockerService.getImages
ImagesSpecInit == DockerInit /\ QuietStore /\ ImagesInit /\ FreshDisk /\ NoComposeFile

ImagesNext ==
    \/ CallGetImages
    \/ ListImagesDone
    \/ ImagesReturn

SpecImages == ImagesSpecInit /\ [][ImagesNext]_vars

\* DockerService.saveNetworks and loadNetworks
PersistSpecInit == DockerInit /\ QuietStore /\ ImagesInit /\ PersistInit /\ NoComposeFile

PersistNext ==
    \/ CallSaveNetworks
    \/ CallLoadNetworks
    \/ ExistsLegacyDone
    \/ ExistsPathDone
    \/ CopyDone
    \/ ExistsPathAgainDone
    \/ ReadDone
    \/ WriteDone
    \/ PersistReturn

SpecPersist == PersistSpecInit /\ [][PersistNext]_vars

\* DockerService.saveComposeFile
ComposeSpecInit == DockerInit /\ QuietStore /\ ImagesInit /\ FreshDisk /\ ComposeInit

ComposeNext ==
    \/ CallSaveComposeFile
    \/ ComposeWriteDone
    \/ ComposeReturn

SpecCompose == ComposeSpecInit /\ [][ComposeNext]_vars

(***************************************************************************)
(* Claims about DockerService                                              *)
(***************************************************************************)
Events == 1..Len(trace)
Issued(cmd) == {i \in Events : trace[i].step.call = cmd}
Settled == dresult.status \in {"resolved", "rejected"}
LifecycleOps == {"start", "stop", "startNode", "stopNode", "removeNode"}

\* the step i of the trace is the command cmd for the call's node, and it succeeded
SucceededFor(i, cmd) ==
    /\ trace[i].step = Compose(cmd, dcall.node.name)
    /\ trace[i].outcome = "ok"

\* C1: in startNode, `up one` is issued only for the node and only after `stop one`
\* for that node was issued and succeeded; a failed stop rejects startNode and
\* `up one` is never issued; startNode resolves only after a successful `up one`.
C1_StartNodeStopsFirst ==
    dcall.op = "startNode" =>
        /\ \A i \in Issued("upOne") :
              /\ trace[i].step.name = dcall.node.name
              /\ \E j \in 1..(i - 1) : SucceededFor(j, "stopOne")
        /\ \A j \in Issued("stopOne") :
              trace[j].outcome = "failed" =>
                  dresult.status = "rejected" /\ Issued("upOne") = {}
        /\ dresult.status = "resolved" => \E i \in Events : SucceededFor(i, "upOne")

C1_Witness ==
    /\ dcall.op = "startNode"
    /\ dresult.status = "resolved"
    /\ \E i, j \in Events : i < j /\ SucceededFor(i, "stopOne") /\ SucceededFor(j, "upOne")

\* C2: in removeNode, `stop one` is issued first, `rm` for the same node only
\* after the stop succeeded; removeNode resolves only when both succeeded and a
\* failed stop means `rm` is never issued.
C2_RemoveNodeStopsThenRemoves ==
    dcall.op = "removeNode" =>
        /\ trace[1].step = Compose("stopOne", dcall.node.name)
        /\ \A i \in Issued("rm") :
              /\ trace[i].step.name = dcall.node.name
              /\ \E j \in 1..(i - 1) : SucceededFor(j, "stopOne")
        /\ \A j \in Issued("stopOne") :
              trace[j].outcome = "failed" =>
                  dresult.status = "rejected" /\ Issued("rm") = {}
        /\ dresult.status = "resolved" =>
              \E i, j \in Events : SucceededFor(i, "stopOne") /\ SucceededFor(j, "rm")

C2_Witness ==
    /\ dcall.op = "removeNode"
    /\ dresult.status = "resolved"
    /\ \E i, j \in Events : i < j /\ SucceededFor(i, "stopOne") /\ SucceededFor(j, "rm")

\* the directories a node needs: its data directory and, for a c-lightning node,
\* the data and API sub-directories
SubDirsNeeded(node) ==
    IF node.implementation = "c-lightning" THEN {"", "dataDir", "apiDir"} ELSE {""}

\* before the step i, every directory of every node of the network was ensured
AllDirsEnsuredBefore(i) ==
    \A node \in Range(NodesOf(dcall.network)) : \A sub \in SubDirsNeeded(node) :
        \E j \in 1..(i - 1) :
            /\ trace[j].step = EnsureDir(node, sub)
            /\ trace[j].outcome = "ok"

\* C3: in start, the bulk `up` is issued only after the directory of every
\* bitcoin and lightning node (and the two sub-directories of every c-lightning
\* node) was ensured; a failed directory creation means `up` is never issued.
C3_StartEnsuresDirsFirst ==
    dcall.op = "start" =>
        /\ \A i \in Issued("upAll") : AllDirsEnsuredBefore(i)
        /\ \A j \in Issued("ensureDir") :
              trace[j].outcome = "failed" =>
                  dresult.status = "rejected" /\ Issued("upAll") = {}
        /\ dresult.status = "resolved" =>
              \E i \in Events : trace[i].step.call = "upAll" /\ trace[i].outcome = "ok"

C3_Witness ==
    /\ dcall.op = "start"
    /\ dresult.status = "resolved"
    /\ \E node \in Range(dcall.network.lightning) : node.implementation = "c-lightning"
    /\ \E i \in Issued("upAll") : AllDirsEnsuredBefore(i)

\* C4 as claimed: stop provisions the directories of the network's nodes and
\* only then issues the bulk `down`.
C4_StopEnsuresDirsFirst ==
    dcall.op = "stop" => \A i \in Issued("down") : AllDirsEnsuredBefore(i)

\* C4 as amended: stop provisions no directory; the bulk `down` is the only call
\* it issues, and stop resolves exactly when `down` succeeded.
C4_StopOnlyIssuesDown ==
    dcall.op = "stop" =>
        /\ Issued("ensureDir") = {}
        /\ Len(trace) = 1
        /\ trace[1].step = Compose("down", <<>>)
        /\ trace[1].outcome = "ok" <=> dresult.status = "resolved"
        /\ trace[1].outcome = "failed" <=> dresult.status = "rejected"

C4_Witness ==
    /\ dcall.op = "stop"
    /\ dresult.status = "resolved"
    /\ dcall.network.lightning # <<>>
    /\ trace[Len(trace)].step.call = "down"

\* the last step of the trace is a docker-compose command that failed
ComposeFailed ==
    /\ trace # <<>>
    /\ trace[Len(trace)].step.call \in ComposeCmds
    /\ trace[Len(trace)].outcome = "failed"

FailedErr == trace[Len(trace)].value.err

\* C5 as claimed: a lifecycle operation whose docker-compose command failed
\* rejects with exactly the ANSI-stripped standard-error text of that command.
C5_ErrorIsStrippedStderr ==
    (dcall.op \in LifecycleOps /\ ComposeFailed) =>
        /\ dresult.status = "rejected"
        /\ dresult.error = SelectSeq(FailedErr, LAMBDA c : c \notin AnsiCodes)

\* C5 as amended: the message is the ANSI-stripped standard-error text when that
\* text is not empty; when it is empty the message is the JSON serialisation of
\* the failure value (never the empty text).
C5_ErrorIsStrippedStderrOrJson ==
    (dcall.op \in LifecycleOps /\ ComposeFailed) =>
        LET stripped == SelectSeq(FailedErr, LAMBDA c : c \notin AnsiCodes)
        IN  /\ dresult.status = "rejected"
            /\ stripped # <<>> => dresult.error = stripped
            /\ stripped = <<>> =>
                  /\ dresult.error # <<>>
                  /\ dresult.error =
                        JSONstringify([exitCode |-> trace[Len(trace)].value.exitCode,
                                       err |-> <<>>,
                                       out |-> trace[Len(trace)].value.out])

C5_Witness ==
    /\ dcall.op \in LifecycleOps
    /\ ComposeFailed
    /\ \E i \in 1..Len(FailedErr) : FailedErr[i] \in AnsiCodes
    /\ \E i \in 1..Len(FailedErr) : FailedErr[i] \notin AnsiCodes
    /\ dresult.status = "rejected"

\* what a probe reports: its version when it succeeded, the empty text otherwise
Reported(i, version) == IF trace[i].outcome = "ok" THEN version ELSE <<>>

\* C9: getVersions without throwOnError never rejects; both probes run whatever
\* the outcome of the other; a failed probe leaves the empty string in its field
\* and a successful probe's version is in its field.
C9_GetVersionsSwallows ==
    (dcall.op = "getVersions" /\ ~dcall.throwOnError) =>
        /\ dresult.status # "rejected"
        /\ trace[1].step = DockerVersion
        /\ trace[1].outcome # "running" =>
              Len(trace) = 2 /\ trace[2].step = Compose("version", <<>>)
        /\ dresult.status = "resolved" =>
              /\ Len(trace) = 2
              /\ trace[2].outcome # "running"
              /\ versions.docker = Reported(1, trace[1].value.out)
              /\ versions.compose =
                    Reported(2, trim(SelectSeq(trace[2].value.out,
                                               LAMBDA c : c \notin AnsiCodes)))

C9_Witness ==
    /\ dcall.op = "getVersions"
    /\ ~dcall.throwOnError
    /\ dresult.status = "resolved"
    /\ trace[1].outcome = "failed"
    /\ trace[2].outcome = "ok"
    /\ versions.docker = <<>>
    /\ versions.compose # <<>>
    /\ versions.compose # trace[2].value.out

\* C10: getVersions with throwOnError rejects with the first probe failure: a
\* failed engine probe rejects with its error and the compose probe is not run;
\* a failed compose probe rejects with the error execute threw for it; the call
\* resolves only when both probes succeeded.
C10_GetVersionsThrows ==
    (dcall.op = "getVersions" /\ dcall.throwOnError) =>
        /\ trace[1].outcome = "failed" =>
              /\ dresult = [status |-> "rejected", error |-> DockerError]
              /\ Len(trace) = 1
        /\ (Len(trace) = 2 /\ trace[2].outcome = "failed") =>
              /\ trace[1].outcome = "ok"
              /\ dresult.status = "rejected"
              /\ dresult.error = executeError(trace[2].value)
        /\ dresult.status = "resolved" =>
              /\ Len(trace) = 2
              /\ \A i \in Events : trace[i].outcome = "ok"

C10_Witness ==
    /\ dcall.op = "getVersions"
    /\ dcall.throwOnError
    /\ dresult.status = "rejected"
    /\ trace[1].outcome = "failed"
    /\ Issued("version") = {}

(***************************************************************************)
(* Claims about bitcoindModel                                              *)
(***************************************************************************)
CallsOf(fn) == {i \in 1..Len(calls) : calls[i].fn = fn}
Dispatched == {n \in StoreNodes : fetch[n].stage # "none"}
NegativeMine == bcall.op = "mine" /\ bcall.blocks < 0

\* the started bitcoin nodes of the network of the thunk's node
StartedPeers ==
    {n \in StoreNodes : n.networkId = bcall.node.networkId /\ n.status = "Started"}

\* C6: mine with blocks < 0 rejects before bitcoindService.mine is called, before
\* the settle delay and before any getInfo is dispatched, and the step that
\* rejects it leaves the node-info cache as it was.
C6_NegativeMineRejectsFirst ==
    /\ [](NegativeMine =>
            /\ bresult.status = "rejected"
            /\ bresult.error = "mineError"
            /\ calls = <<>>
            /\ Dispatched = {})
    /\ [][(bcall.op = "none" /\ bcall'.op = "mine" /\ bcall'.blocks < 0) =>
            nodes' = nodes]_vars

C6_Witness ==
    /\ NegativeMine
    /\ bresult.status = "rejected"
    /\ DOMAIN nodes # {}
    /\ height[bcall.node.networkId] > 0

\* C7: getInfo is dispatched only for the started bitcoin nodes of the node's
\* network, for all of them at once and only after bitcoindService.mine and the
\* delay returned; when mine resolves, the getInfo of every one of them has
\* stored its result, and an entry of the cache for such a node holds the chain
\* as it is after the mining.
C7_MineRefreshesStartedNodes ==
    bcall.op = "mine" =>
        /\ Dispatched \subseteq StartedPeers
        /\ Dispatched # {} =>
              /\ Dispatched = StartedPeers
              /\ Len(calls) = 2
              /\ calls[1].fn = "mine" /\ calls[1].outcome = "ok"
              /\ calls[2].fn = "delay" /\ calls[2].outcome = "ok"
        /\ bresult.status = "resolved" =>
              \A n \in StartedPeers :
                  /\ fetch[n].stage = "stored"
                  /\ getNetworkBackendId(n) \in DOMAIN nodes =>
                        nodes[getNetworkBackendId(n)].chainInfo.blocks =
                            height[n.networkId]

C7_Witness ==
    /\ bcall.op = "mine"
    /\ bcall.blocks > 0
    /\ bresult.status = "resolved"
    /\ Cardinality(StartedPeers) = 2
    /\ \E n \in StoreNodes \ StartedPeers : fetch[n].stage = "none"
    /\ \A n \in StartedPeers :
          /\ fetch[n].stage = "stored"
          /\ getNetworkBackendId(n) \in DOMAIN nodes
          /\ nodes[getNetworkBackendId(n)].chainInfo.blocks = height[n.networkId]

\* C8: sendFunds submits the transaction exactly once; with autoMine it then
\* calls mine with exactly 6 blocks on the same node, once, after the submission
\* succeeded and before it resolves; without autoMine, or when the submission
\* failed, nothing is mined.
C8_SendFundsSubmitsOnceThenMines ==
    bcall.op = "sendFunds" =>
        /\ CallsOf("sendFunds") = {1}
        /\ calls[1].node = bcall.node
        /\ \A i \in CallsOf("mine") :
              /\ bcall.autoMine
              /\ calls[1].outcome = "ok"
              /\ i = 2
              /\ calls[i].arg = 6
              /\ calls[i].node = bcall.node
        /\ (bcall.autoMine /\ calls[1].outcome = "ok") => CallsOf("mine") = {2}
        /\ (bcall.autoMine /\ bresult.status = "resolved") =>
              calls[2].outcome = "ok" /\ Dispatched = StartedPeers
        /\ (~bcall.autoMine \/ calls[1].outcome = "failed") =>
              /\ CallsOf("mine") = {}
              /\ CallsOf("delay") = {}
              /\ Dispatched = {}

C8_Witness ==
    /\ bcall.op = "sendFunds"
    /\ bcall.autoMine
    /\ bresult.status = "resolved"
    /\ calls[1].outcome = "ok"
    /\ calls[2] = [fn |-> "mine", node |-> bcall.node, arg |-> 6, outcome |-> "ok"]

(***************************************************************************)
(* Claims about getImages                                                  *)
(***************************************************************************)
\* every tag the engine listed, in any image that has RepoTags
ListedTags ==
    UNION {Range(listing.allImages[i].RepoTags) :
              i \in {j \in 1..Len(listing.allImages) : listing.allImages[j].hasRepoTags}}

\* C11: for every list of images the engine returns, the list getImages
\* resolves with has no tag twice, never holds the untagged sentinel, and holds
\* every other tag of any image's RepoTags (images with no RepoTags add nothing).
C11_ImagesUniqueAndTagged ==
    (listing.pc = "done" /\ listing.outcome = "ok") =>
        /\ images.status = "resolved"
        /\ \A i, j \in 1..Len(images.value) :
              images.value[i] = images.value[j] => i = j
        /\ "<none>:<none>" \notin Range(images.value)
        /\ Range(images.value) = ListedTags \ {"<none>:<none>"}

C11_Witness ==
    /\ listing.pc = "done"
    /\ listing.outcome = "ok"
    /\ Len(listing.allImages) = 2
    /\ ~listing.allImages[1].hasRepoTags
    /\ listing.allImages[2].RepoTags
          = <<"polarlightning/lnd:0.9", "<none>:<none>">>
    /\ images.value = <<"polarlightning/lnd:0.9">>

\* C12: getImages never rejects; when listing the engine's images fails it
\* resolves with the empty list.
C12_ImagesNeverFails ==
    /\ images.status # "rejected"
    /\ (listing.pc = "done" /\ listing.outcome = "failed") =>
          images.status = "resolved" /\ images.value = <<>>

C12_Witness ==
    /\ listing.pc = "done"
    /\ listing.outcome = "failed"
    /\ images.status = "resolved"
    /\ images.value = <<>>

(***************************************************************************)
(* Claims about saveNetworks and loadNetworks                              *)
(***************************************************************************)
LoadDone == pcall.op = "loadNetworks" /\ pcall.pc = "done"

Logged(op) == {i \in 1..Len(plog) : plog[i].op = op}

FailedSteps == {i \in 1..Len(plog) : ~plog[i].ok}

CopyFailures == {i \in Logged("copy") : ~plog[i].ok}

\* C13: when neither the networks file nor the legacy directory exists,
\* loadNetworks resolves with the empty document of the current version and
\* has copied, migrated and written nothing.
C13_NothingOnDiskLoadsEmpty ==
    (LoadDone /\ ~pcall.before.exists /\ ~legacy.exists) =>
        /\ presult.status = "resolved"
        /\ presult.value = [version |-> APP_VERSION, networks |-> <<>>, charts |-> {}]
        /\ Logged("copy") = {}
        /\ Logged("migrate") = {}
        /\ Logged("write") = {}
        /\ ~file.exists

C13_Witness ==
    /\ LoadDone
    /\ ~pcall.before.exists
    /\ ~legacy.exists
    /\ presult.status = "resolved"
    /\ presult.value.networks = <<>>

\* C14: when the networks file exists and loadNetworks resolves, it has
\* migrated the document and written the migrated document exactly when the
\* document's version differs from the app version or NODE_ENV is not
\* production, and then it resolves with the document it wrote; otherwise it
\* resolves with the document as read and has written nothing.
C14_MigratesAndWritesIffNeeded ==
    (LoadDone /\ pcall.before.exists /\ presult.status = "resolved") =>
        LET asRead == JSONparse(pcall.before.json)
            needed == asRead.version # APP_VERSION \/ nodeEnv # "production"
        IN  /\ needed <=> Logged("migrate") # {}
            /\ needed <=> Logged("write") # {}
            /\ needed =>
                  /\ \A i \in Logged("write") :
                        /\ plog[i].ok
                        /\ JSONparse(plog[i].json) = presult.value
                        /\ file = OnDisk(plog[i].json)
                  /\ presult.value = migrateNetworksFile(asRead)
            /\ ~needed => presult.value = asRead /\ file = pcall.before

C14_Witness ==
    /\ LoadDone
    /\ pcall.before.exists
    /\ presult.status = "resolved"
    /\ nodeEnv = "development"
    /\ JSONparse(pcall.before.json).version = APP_VERSION
    /\ Logged("write") # {}
    /\ Len(presult.value.networks) = 2

\* C15: with the networks file missing and a legacy networks file present, one
\* loadNetworks call copies the legacy data and resolves with the copied,
\* migrated document; the copy is attempted only when the networks file is
\* missing and the legacy directory exists, so a networks file that exists is
\* never overwritten by legacy data.
C15_LegacyCopiedThenMigrated ==
    /\ (pcall.op = "loadNetworks" /\ Logged("copy") # {}) =>
          ~pcall.before.exists /\ legacy.exists
    /\ (pcall.op = "loadNetworks" /\ pcall.before.exists /\ Logged("write") = {}) =>
          file = pcall.before
    /\ (LoadDone /\ ~pcall.before.exists /\ legacy.hasFile /\ FailedSteps = {}) =>
          /\ Logged("copy") # {}
          /\ presult.status = "resolved"
          /\ \E i \in Logged("copy") : plog[i].ok /\ plog[i].json = legacy.json
          /\ presult.value = migrateNetworksFile(JSONparse(legacy.json))
          /\ file.exists
          /\ JSONparse(file.json) = presult.value

C15_Witness ==
    /\ LoadDone
    /\ ~pcall.before.exists
    /\ legacy.hasFile
    /\ FailedSteps = {}
    /\ presult.status = "resolved"
    /\ Len(presult.value.networks) = 2
    /\ presult.value.charts = {1, 2}

\* C16: if copying the legacy data fails, the failure is not propagated and
\* loadNetworks resolves with the empty document of the current version.
C16_CopyFailureLoadsEmpty ==
    (LoadDone /\ CopyFailures # {}) =>
        /\ presult.status = "resolved"
        /\ presult.value = [version |-> APP_VERSION, networks |-> <<>>, charts |-> {}]

\* C17: after saveNetworks(x) resolved for an x of the current app version, a
\* loadNetworks call in which no read or write fails resolves with a document
\* equal to x.
C17_SaveThenLoadRoundTrip ==
    (LoadDone /\ saved.valid /\ saved.data.version = APP_VERSION /\ FailedSteps = {}) =>
        /\ presult.status = "resolved"
        /\ presult.value = saved.data

C17_Witness ==
    /\ LoadDone
    /\ saved.valid
    /\ saved.data.version = APP_VERSION
    /\ nodeEnv = "development"
    /\ presult.status = "resolved"
    /\ Len(presult.value.networks) = 2
    /\ presult.value.charts = {1, 2}

C19_FutureVersionRejected ==
    (LoadDone /\ pcall.before.exists /\ JSONparse(pcall.before.json).version > APP_VERSION) =>
        /\ presult.status = "rejected"
        /\ Logged("write") = {}
        /\ file = pcall.before

C19_Witness ==
    /\ LoadDone
    /\ pcall.before.exists
    /\ JSONparse(pcall.before.json).version > APP_VERSION
    /\ presult.status = "rejected"
    /\ presult.error = <<"v", "e", "r", "s", "i", "o", "n">>
    /\ FailedSteps = {}

(***************************************************************************)
(* Claims about saveComposeFile                                            *)
(***************************************************************************)
ServicesOf(name) ==
    {i \in 1..Len(compose.content) : compose.content[i].name = name}

\* C20: for every lightning node of the network (of an implementation that is
\* given a service), the backend of its service is
\* the first bitcoin node whose name is the node's backendName and, when no
\* bitcoin node has that name, the first bitcoin node of the network;
\* saveComposeFile does not fail because a backend name is unresolved (it
\* rejects only when the write fails).
C20_BackendResolvedOrFirst ==
    compose.pc \in {"write", "done"} =>
        LET bitcoin == compose.network.bitcoin
            lightning == compose.network.lightning
        IN  /\ \A l \in {i \in 1..Len(lightning) :
                            lightning[i].implementation \in LightningImpls} :
                  /\ ServicesOf(lightning[l].name) # {}
                  /\ \A s \in ServicesOf(lightning[l].name) :
                        \/ \E b \in 1..Len(bitcoin) :
                              /\ bitcoin[b].name = lightning[l].backendName
                              /\ \A a \in 1..(b - 1) :
                                    bitcoin[a].name # lightning[l].backendName
                              /\ compose.content[s].backend = bitcoin[b].name
                        \/ /\ \A b \in 1..Len(bitcoin) :
                                 bitcoin[b].name # lightning[l].backendName
                           /\ compose.content[s].backend = bitcoin[1].name
            /\ cresult.status = "rejected" =>
                  cresult.error = <<"E", "A", "C", "C", "E", "S">>
            /\ cresult.status = "resolved" => ymlFile = OnDisk(yamlDump(compose.content))

C20_Witness ==
    /\ compose.pc = "done"
    /\ cresult.status = "resolved"
    /\ Len(compose.network.bitcoin) = 2
    /\ Len(compose.network.lightning) = 2
    /\ \A l \in 1..2 : compose.network.lightning[l].implementation \in LightningImpls
    /\ compose.network.lightning[1].backendName = <<"b", "3">>
    /\ compose.network.lightning[2].backendName = <<"b", "2">>
    /\ compose.content[3].backend = <<"b", "1">>
    /\ compose.content[4].backend = <<"b", "2">>

UnknownNodes ==
    {l \in 1..Len(compose.network.lightning) :
        compose.network.lightning[l].implementation \notin {"LND", "c-lightning", "eclair"}}

\* C21: saveComposeFile for a network that holds a node with an unknown
\* implementation tag rejects and writes no composition document.
C21_UnknownImplementationRejects ==
    (compose.pc = "done" /\ UnknownNodes # {}) =>
        /\ cresult.status = "rejected"
        /\ ymlFile = compose.before

C24_NoRetries ==
    dcall.op \in {"start", "stop", "startNode", "stopNode", "removeNode"} =>
        /\ \A i, j \in 1..Len(trace) :
              (i < j /\ trace[i].step.call # "ensureDir") => trace[i].step # trace[j].step
        /\ \A i \in 1..Len(trace) :
              trace[i].outcome = "failed" =>
                  /\ i = Len(trace)
                  /\ dresult.status = "rejected"

C24_Witness ==
    /\ dcall.op = "startNode"
    /\ dresult.status = "rejected"
    /\ Len(trace) < Len(Plan(dcall))
    /\ trace[Len(trace)].outcome = "failed"
    /\ trace[Len(trace)].step.call = "stopOne"
    /\ \A i \in 1..Len(trace) : trace[i].step.call # "upOne"

(***************************************************************************)
(* Claims about sendFunds                                                  *)
(***************************************************************************)
Submitted ==
    /\ bcall.op = "sendFunds"
    /\ calls # <<>>
    /\ calls[1].fn = "sendFunds"
    /\ calls[1].outcome = "ok"

MinePathFailed ==
    \/ \E i \in 2..Len(calls) : calls[i].outcome = "failed"
    \/ \E n \in joined : fetch[n].stage = "failed"

\* C28: sendFunds resolves with the transaction id the submission returned;
\* with autoMine it resolves only after mining, the settle delay and the refresh
\* of every started node are over; when that mine path fails after a successful
\* submission, sendFunds rejects and returns no transaction id, although a
\* transaction was submitted.
C28_SendFundsTxidAfterMinePath ==
    bcall.op = "sendFunds" =>
        /\ bresult.status = "resolved" =>
              /\ Submitted
              /\ txid \in {"tx1", "tx2"}
              /\ bresult.value = txid
              /\ bcall.autoMine =>
                    /\ Len(calls) = 3
                    /\ calls[2].fn = "mine" /\ calls[2].outcome = "ok"
                    /\ calls[3].fn = "delay" /\ calls[3].outcome = "ok"
                    /\ \A n \in StartedPeers : fetch[n].stage = "stored"
        /\ (Submitted /\ MinePathFailed) =>
              /\ bcall.autoMine
              /\ bresult.status = "rejected"
              /\ bresult.value = ""
              /\ txid \in {"tx1", "tx2"}

C28_Witness ==
    /\ Submitted
    /\ bcall.autoMine
    /\ Len(calls) = 3
    /\ \E n \in joined : fetch[n].stage = "failed"
    /\ bresult.status = "rejected"
    /\ bresult.value = ""
    /\ txid = "tx1"

(***************************************************************************)
(* Claims about the node-info cache                                        *)
(***************************************************************************)
\* the entries of the cache other than the node's own are what they were
OthersKept(n) ==
    /\ DOMAIN nodes' \ {getNetworkBackendId(n)} = DOMAIN nodes \ {getNetworkBackendId(n)}
    /\ \A k \in DOMAIN nodes \ {getNetworkBackendId(n)} : nodes'[k] = nodes[k]

\* the getInfo of the node n fails in this step
GetInfoFails(n) ==
    /\ fetch[n].stage \in {"chain", "wallet"}
    /\ fetch'[n].stage = "failed"

\* the getInfo of the node n stores its result in this step
GetInfoStores(n) ==
    /\ fetch[n].stage \in {"chain", "wallet"}
    /\ fetch'[n].stage = "stored"

\* C27: getInfo(node) updates the cache all-or-nothing. The node's entry is
\* written in one step, chain info and wallet info together, and only from the
\* state in which both fetches have succeeded; the step in which the chain
\* fetch returns writes nothing; when either fetch fails the whole cache is
\* unchanged and a getInfo called on its own rejects; a successful getInfo
\* changes no entry but the node's own.
C27_GetInfoAllOrNothing ==
    [][\A n \in StoreNodes :
          /\ GetInfoFails(n) =>
                /\ nodes' = nodes
                /\ (bcall.op = "getInfo" /\ bcall.node = n) => bresult'.status = "rejected"
          /\ (fetch[n].stage = "chain" /\ fetch'[n].stage # "chain") =>
                /\ fetch'[n].stage \in {"wallet", "failed"}
                /\ nodes' = nodes
          /\ GetInfoStores(n) =>
                /\ fetch[n].stage = "wallet"
                /\ fetch[n].chainInfo.blocks >= 0
                /\ getNetworkBackendId(n) \in DOMAIN nodes'
                /\ nodes'[getNetworkBackendId(n)] =
                      [chainInfo |-> fetch[n].chainInfo,
                       walletInfo |-> [balance |-> height[n.networkId]]]
                /\ OthersKept(n)
                /\ (bcall.op = "getInfo" /\ bcall.node = n) => bresult'.status = "resolved"
    ]_vars

\* a getInfo called on its own has stored its node's entry next to the entry of
\* another node
C27_Witness ==
    /\ bcall.op = "getInfo"
    /\ bresult.status = "resolved"
    /\ fetch[bcall.node].stage = "stored"
    /\ getNetworkBackendId(bcall.node) \in DOMAIN nodes
    /\ nodes[getNetworkBackendId(bcall.node)].chainInfo.blocks = height[bcall.node.networkId]
    /\ \E k \in DOMAIN nodes : k # getNetworkBackendId(bcall.node)

\* C23: the cache entry of a bitcoin node is cleared on removal. Once removeNode
\* has been applied for a node (or clearNodes for all) and no getInfo for the
\* node has been started since, the cache holds no entry under the node's key,
\* also when a getInfo started before the removal completes after it.
C23_RemovedNodeHasNoEntry ==
    \A n \in removed : getNetworkBackendId(n) \notin DOMAIN nodes

\* the cache entry of the node n, if it has one
NoEntry == [chainInfo |-> NoChainInfo, walletInfo |-> [balance |-> -1]]
EntryOf(state, n) ==
    IF getNetworkBackendId(n) \in DOMAIN state THEN state[getNetworkBackendId(n)] ELSE NoEntry

\* two nodes of the store have one key only if they have one id and one name
KeysDistinct ==
    \A n, m \in StoreNodes :
        (n.networkId >= 0 /\ m.networkId >= 0
            /\ getNetworkBackendId(n) = getNetworkBackendId(m))
        => (n.networkId = m.networkId /\ n.name = m.name)

\* a node whose info was stored and which was not removed since has its entry
StoredKept ==
    \A n \in StoreNodes :
        (fetch[n].stage = "stored" /\ n \notin removed) => EntryOf(nodes, n) # NoEntry

\* the step in which the info of the node m is stored writes m's entry only
WritesOwnEntryOnly ==
    \A m \in StoreNodes :
        GetInfoStores(m) =>
            /\ EntryOf(nodes', m) # NoEntry
            /\ \A n \in StoreNodes \ {m} : EntryOf(nodes', n) = EntryOf(nodes, n)

\* C26: the cache key is unique across networks. For two bitcoin nodes with
\* integer network ids >= 0, getNetworkBackendId gives the same key only if id
\* and name are both equal; so removeNode for one node never deletes the entry
\* of another (a stored, not removed node keeps its entry) and setInfo for one
\* node never writes the entry of another.
C26_KeyUnique ==
    /\ [](KeysDistinct /\ StoredKept)
    /\ [][WritesOwnEntryOnly]_vars

\* two nodes whose ids and names concatenate to the same digits (1 with "11", 11
\* with "1"): the first has its entry, the other was removed and has none
C26_Witness ==
    \E n, m \in StoreNodes :
        /\ n.networkId = 1 /\ n.name = <<"1", "1">>
        /\ m.networkId = 11 /\ m.name = <<"1">>
        /\ fetch[n].stage = "stored"
        /\ EntryOf(nodes, n) # NoEntry
        /\ m \in removed
        /\ EntryOf(nodes, m) = NoEntry
====
